---- MODULE Spec2Model ----
(***************************************************************************)
(* Sticky notes: the Note model (notes/models.py), the NoteForm validation *)
(* (notes/forms.py) and the five views (notes/views.py), as a state        *)
(* machine over the notes table.  A view that issues more than one query   *)
(* is one action per query, so that the queries of concurrent requests     *)
(* interleave as they do against the database.                             *)
(***************************************************************************)
EXTENDS Integers, Sequences, FiniteSets

\* ------------------------------------------------------------------ bounds
MaxNotes == 2      \* ids the table hands out: 1..MaxNotes
MaxTime  == 1      \* the clock runs 0..MaxTime
MaxReqs  == 2      \* requests in flight between two of their queries

\* Note.title: models.CharField(max_length=200)
MaxTitleLength == 200

\* ------------------------------------------------------------------ strings
\* A string is a sequence of characters; NUL is the character U+0000.
NUL == "NUL"
Whitespace == {" ", "\t", "\n"}

Rep(c, n) == [i \in 1..n |-> c]

\* str.lstrip() / str.rstrip() / str.strip()
RECURSIVE LStrip(_)
LStrip(s) == IF s = <<>> THEN <<>>
             ELSE IF Head(s) \in Whitespace THEN LStrip(Tail(s)) ELSE s

RECURSIVE RStrip(_)
RStrip(s) == IF s = <<>> THEN <<>>
             ELSE IF s[Len(s)] \in Whitespace THEN RStrip(SubSeq(s, 1, Len(s) - 1)) ELSE s

\* Strip gone wrong: lstrip in the place of strip.
StripLeadingOnly(s) == LStrip(s)

Strip(s) == RStrip(LStrip(s))

\* ------------------------------------------------------------------ NoteForm
Fields == {"title", "content"}

Err(code, n) == [code |-> code, show_value |-> n]

\* request.POST.get(name): the submitted value, or None. The form field turns
\* None into the empty string before anything else looks at it.
RawValue(post, name) == IF name \in DOMAIN post THEN post[name] ELSE <<>>

\* max_length of the form field ModelForm derives from the model field:
\* 200 for title (CharField), none for content (TextField); 0 stands for none.
FieldMaxLength(name) == IF name = "title" THEN MaxTitleLength ELSE 0

\* FieldClean gone wrong: the length is taken of the raw value, before
\* stripping.
FieldCleanRawLength(post, name) ==
    LET raw   == RawValue(post, name)
        value == Strip(raw)
        max   == FieldMaxLength(name)
        errs  == (IF max > 0 /\ Len(raw) > max
                     THEN {Err("max_length", Len(raw))} ELSE {})
                 \cup (IF \E i \in 1..Len(value) : value[i] = NUL
                     THEN {Err("null_characters_not_allowed", 0)} ELSE {})
    IN  IF value = <<>> THEN [errors |-> {Err("required", 0)}, value |-> value]
        ELSE [errors |-> errs, value |-> value]

\* forms.CharField.clean of a required field: to_python strips the value, an
\* empty result is "required", otherwise the validators run on the stripped
\* value (MaxLengthValidator when max_length is set, and
\* ProhibitNullCharactersValidator) and all their errors are collected.
FieldClean(post, name) ==
    LET raw   == RawValue(post, name)
        value == Strip(raw)
        max   == FieldMaxLength(name)
        errs  == (IF max > 0 /\ Len(value) > max
                     THEN {Err("max_length", Len(value))} ELSE {})
                 \cup (IF \E i \in 1..Len(value) : value[i] = NUL
                     THEN {Err("null_characters_not_allowed", 0)} ELSE {})
    IN  IF value = <<>> THEN [errors |-> {Err("required", 0)}, value |-> value]
        ELSE [errors |-> errs, value |-> value]

\* NoteForm.clean_title, run on the field's cleaned value when the field had
\* no error: whitespace only is an error, otherwise the stripped title.
clean_title(title) ==
    IF title # <<>> /\ Strip(title) = <<>>
       THEN [errors |-> {Err("whitespace", 0)}, value |-> title]
       ELSE [errors |-> {}, value |-> IF title # <<>> THEN Strip(title) ELSE title]

\* NoteForm.clean_content, likewise.
clean_content(content) ==
    IF content # <<>> /\ Strip(content) = <<>>
       THEN [errors |-> {Err("whitespace", 0)}, value |-> content]
       ELSE [errors |-> {}, value |-> IF content # <<>> THEN Strip(content) ELSE content]

\* One field through the form: the field's clean, then clean_<name>.
CleanField(post, name) ==
    LET f == FieldClean(post, name)
    IN  IF f.errors # {} THEN f
        ELSE IF name = "title" THEN clean_title(f.value) ELSE clean_content(f.value)

\* NoteForm(data).full_clean(): errors per field, cleaned_data holds the fields
\* that had none.
NoteForm(post) ==
    LET ok == {name \in Fields : CleanField(post, name).errors = {}}
    IN  [errors       |-> [name \in Fields |-> CleanField(post, name).errors],
         cleaned_data |-> [name \in ok |-> CleanField(post, name).value]]

\* form.is_valid()
is_valid(form) == \A name \in Fields : form.errors[name] = {}

\* ------------------------------------------------------------------ state
VARIABLES
    store,     \* the notes table: id -> [title, content, created_at, updated_at]
    nextId,    \* the id the table gives the next inserted note (AUTOINCREMENT)
    now,       \* timezone.now()
    reqs,      \* requests in flight: slot -> where the view stands and what it holds
    resp,      \* the response of the step just taken, until it is delivered
    deleted,   \* history: ids whose delete POST was answered with the redirect
    data,      \* validation alone: the data a NoteForm is bound to
    form       \* validation alone: that form once cleaned

vars == <<store, nextId, now, reqs, resp, deleted, data, form>>

Slots == 1..MaxReqs
Pks   == 1..(MaxNotes + 1)     \* MaxNotes + 1 is an id the table never hands out
Idle  == [pc |-> "idle"]
NoRows == [i \in {} |-> 0]
NoResponse == [view |-> "none", method |-> "GET", status |-> 0]

\* A field of whitespace alone, and a value with whitespace around it.
Blank(c) == <<c>>
Padded(c) == <<" ", c, " ">>

\* What the requests of the full system submit: two valid forms, whose fields
\* are padded with whitespace or not, and one form for every way of being
\* invalid (a field blank, absent, or a title one character too long).
Posts ==
    { [title |-> Padded("a"), content |-> Padded("c")],
      [title |-> <<"b">>, content |-> <<"d">>],
      [title |-> Blank(" "), content |-> <<"d">>],
      [title |-> Rep("x", MaxTitleLength + 1), content |-> Padded("c")],
      [title |-> <<"b">>, content |-> Blank("\n")],
      [name \in {"title"} |-> Padded("a")],
      [name \in {"content"} |-> <<"d">>],
      [name \in {} |-> <<>>] }

\* The forms these requests make, validated once each.
Forms == [post \in Posts |-> NoteForm(post)]

\* ------------------------------------------------------------------ the table
\* The model instance a query builds from the row pk.
Instance(st, pk) ==
    [id |-> pk, title |-> st[pk].title, content |-> st[pk].content,
     created_at |-> st[pk].created_at, updated_at |-> st[pk].updated_at]

Row(title, content, created_at, updated_at) ==
    [title |-> title, content |-> content,
     created_at |-> created_at, updated_at |-> updated_at]

\* get_object_or_404 gone wrong: a missing id yields a new, blank instance.
get_or_new(st, pk) ==
    IF pk \in DOMAIN st THEN {Instance(st, pk)}
    ELSE {[id |-> pk, title |-> <<>>, content |-> <<>>, created_at |-> 0, updated_at |-> 0]}

\* get_object_or_404(Note, pk=pk): the instance, or none (Http404).
get_object_or_404(st, pk) ==
    IF pk \in DOMAIN st THEN {Instance(st, pk)} ELSE {}

PutRow(st, pk, row) == [i \in DOMAIN st \cup {pk} |-> IF i = pk THEN row ELSE st[i]]

\* ModelSave gone wrong: auto_now on created_at in the place of updated_at.
ModelSaveSwapped(st, note, t1, t2) ==
    IF note.id \in DOMAIN st
       THEN PutRow(st, note.id, Row(note.title, note.content, t1, note.updated_at))
       ELSE PutRow(st, note.id, Row(note.title, note.content, t1, t2))

\* Model.save() of an instance that has a pk: UPDATE every column of the row
\* (created_at as the instance holds it, updated_at = now by auto_now); when
\* the UPDATE matches no row, INSERT the instance under its pk, created_at =
\* now by auto_now_add and updated_at = now by auto_now. t1 <= t2 are the
\* clock's readings.
ModelSave(st, note, t1, t2) ==
    IF note.id \in DOMAIN st
       THEN PutRow(st, note.id, Row(note.title, note.content, note.created_at, t1))
       ELSE PutRow(st, note.id, Row(note.title, note.content, t1, t2))

\* Model.save() of a new instance: INSERT under the table's next id.
ModelCreate(st, pk, title, content, t1, t2) ==
    PutRow(st, pk, Row(title, content, t1, t2))

\* note.delete(): DELETE ... WHERE id = pk, whether or not the row is there.
ModelDelete(st, pk) == [i \in DOMAIN st \ {pk} |-> st[i]]

\* construct_instance: the cleaned fields are set on the instance.
construct_instance(form_, note) ==
    [note EXCEPT
       !.title   = IF "title" \in DOMAIN form_.cleaned_data
                      THEN form_.cleaned_data.title ELSE @,
       !.content = IF "content" \in DOMAIN form_.cleaned_data
                      THEN form_.cleaned_data.content ELSE @]

\* UpdateIfValid gone wrong: the instance is saved whether or not the form
\* is valid.
UpdateAlwaysSaves(st, note, form_, t1, t2) ==
    ModelSave(st, construct_instance(form_, note), t1, t2)

\* note_update, POST: "if form.is_valid(): note = form.save()".
UpdateIfValid(st, note, form_, t1, t2) ==
    IF is_valid(form_) THEN ModelSave(st, construct_instance(form_, note), t1, t2)
    ELSE st

\* note_create, POST: "if form.is_valid(): note = form.save()".
CreateIfValid(st, pk, form_, t1, t2) ==
    IF is_valid(form_)
       THEN ModelCreate(st, pk, form_.cleaned_data.title, form_.cleaned_data.content, t1, t2)
       ELSE st

\* Note.objects.all() under Meta.ordering = ['-created_at']: the ids of all
\* rows, created_at descending. The order of rows of equal created_at is the
\* database's choice.
Orderings(st) ==
    LET n == Cardinality(DOMAIN st)
    IN  {s \in [1..n -> DOMAIN st] :
           /\ \A i, j \in 1..n : i # j => s[i] # s[j]
           /\ \A i, j \in 1..n : i < j => st[s[i]].created_at >= st[s[j]].created_at}

\* The clock's next reading, no earlier than this one.
Later(t) == {u \in t..(t + 1) : u <= MaxTime}

\* resp is the response of the step just taken: it is delivered before the
\* next step. No view reads it, so this orders nothing the views do.
Ready == resp = NoResponse

\* A request takes the lowest free slot.
FreeSlot(r) == reqs[r].pc = "idle" /\ \A q \in Slots : q < r => reqs[q].pc # "idle"

\* ------------------------------------------------------------------ Init
Unbound   == [pc |-> "unbound"]
EmptyPost == [name \in {} |-> <<>>]

Init ==
    /\ store = NoRows
    /\ nextId = 1
    /\ now = 0
    /\ reqs = [r \in Slots |-> Idle]
    /\ resp = NoResponse
    /\ deleted = {}
    /\ data = EmptyPost
    /\ form = Unbound

\* ------------------------------------------------------------------ the views
\* The clock advances.
Tick ==
    /\ Ready
    /\ now < MaxTime
    /\ now' = now + 1
    /\ UNCHANGED <<store, nextId, reqs, resp, deleted, data, form>>

\* note_list, the context: notes = Note.objects.all() is lazy, notes.count()
\* is the first query.
NoteListCount(r) ==
    /\ Ready
    /\ FreeSlot(r)
    /\ reqs' = [reqs EXCEPT ![r] = [pc |-> "counted", view |-> "list",
                                    total_notes |-> Cardinality(DOMAIN store)]]
    /\ UNCHANGED <<store, nextId, now, resp, deleted, data, form>>

\* note_list, render(): the template iterates notes, the second query.
NoteListRender(r) ==
    /\ Ready
    /\ reqs[r].pc = "counted"
    /\ \E s \in Orderings(store) :
          resp' = [view |-> "list", method |-> "GET", status |-> 200,
                   total_notes |-> reqs[r].total_notes, notes |-> s]
    /\ reqs' = [reqs EXCEPT ![r] = Idle]
    /\ UNCHANGED <<store, nextId, now, deleted, data, form>>

\* note_detail
NoteDetail(pk) ==
    /\ Ready
    /\ resp' = [view |-> "detail", method |-> "GET",
                status |-> IF get_object_or_404(store, pk) = {} THEN 404 ELSE 200]
    /\ UNCHANGED <<store, nextId, now, reqs, deleted, data, form>>

\* note_create, GET: the empty form.
NoteCreateGet ==
    /\ Ready
    /\ resp' = [view |-> "create", method |-> "GET", status |-> 200]
    /\ UNCHANGED <<store, nextId, now, reqs, deleted, data, form>>

\* note_create, POST: the form is validated and, when valid, saved (one
\* INSERT); the redirect on success, the form with its errors otherwise.
NoteCreatePost(post) ==
    LET f == Forms[post]
    IN  /\ Ready
        /\ is_valid(f) => nextId <= MaxNotes
        /\ \E t2 \in Later(now) :
              /\ store' = CreateIfValid(store, nextId, f, now, t2)
              /\ now' = IF is_valid(f) THEN t2 ELSE now
        /\ nextId' = IF is_valid(f) THEN nextId + 1 ELSE nextId
        /\ resp' = [view |-> "create", method |-> "POST",
                    status |-> IF is_valid(f) THEN 302 ELSE 200,
                    errors |-> f.errors]
        /\ UNCHANGED <<reqs, deleted, data, form>>

\* note_update, GET: the fetch, then the form prefilled.
NoteUpdateGet(pk) ==
    /\ Ready
    /\ resp' = [view |-> "update", method |-> "GET",
                status |-> IF get_object_or_404(store, pk) = {} THEN 404 ELSE 200]
    /\ UNCHANGED <<store, nextId, now, reqs, deleted, data, form>>

\* note_update, POST, the first query: note = get_object_or_404(Note, pk=pk).
NoteUpdateFetch(r, pk) ==
    /\ Ready
    /\ FreeSlot(r)
    /\ IF get_object_or_404(store, pk) = {}
          THEN /\ resp' = [view |-> "update", method |-> "POST",
                           status |-> 404]
               /\ reqs' = reqs
          ELSE /\ \E note \in get_object_or_404(store, pk) :
                     reqs' = [reqs EXCEPT ![r] = [pc |-> "fetched", view |-> "update",
                                                  pk |-> pk, note |-> note]]
               /\ resp' = resp
    /\ UNCHANGED <<store, nextId, now, deleted, data, form>>

\* note_update, POST, the rest: NoteForm(request.POST, instance=note) is
\* validated and, when valid, saved.
NoteUpdatePost(r, post) ==
    LET f == Forms[post]
    IN  /\ Ready
        /\ reqs[r].pc = "fetched"
        /\ reqs[r].view = "update"
        /\ \E t2 \in Later(now) :
              /\ store' = UpdateIfValid(store, reqs[r].note, f, now, t2)
              /\ now' = IF is_valid(f) THEN t2 ELSE now
        /\ resp' = [view |-> "update", method |-> "POST",
                    status |-> IF is_valid(f) THEN 302 ELSE 200,
                    errors |-> f.errors]
        /\ reqs' = [reqs EXCEPT ![r] = Idle]
        /\ UNCHANGED <<nextId, deleted, data, form>>

\* note_delete, GET: the fetch, then the confirmation page.
NoteDeleteGet(pk) ==
    /\ Ready
    /\ resp' = [view |-> "delete", method |-> "GET",
                status |-> IF get_object_or_404(store, pk) = {} THEN 404 ELSE 200]
    /\ UNCHANGED <<store, nextId, now, reqs, deleted, data, form>>

\* note_delete, POST, the first query: note = get_object_or_404(Note, pk=pk).
NoteDeleteFetch(r, pk) ==
    /\ Ready
    /\ FreeSlot(r)
    /\ IF get_object_or_404(store, pk) = {}
          THEN /\ resp' = [view |-> "delete", method |-> "POST",
                           status |-> 404]
               /\ reqs' = reqs
          ELSE /\ \E note \in get_object_or_404(store, pk) :
                     reqs' = [reqs EXCEPT ![r] = [pc |-> "fetched", view |-> "delete",
                                                  pk |-> pk, note |-> note]]
               /\ resp' = resp
    /\ UNCHANGED <<store, nextId, now, deleted, data, form>>

\* note_delete, POST, the rest: note.delete() and the redirect to the list.
NoteDeletePost(r) ==
    /\ Ready
    /\ reqs[r].pc = "fetched"
    /\ reqs[r].view = "delete"
    /\ store' = ModelDelete(store, reqs[r].pk)
    /\ deleted' = deleted \cup {reqs[r].pk}
    /\ resp' = [view |-> "delete", method |-> "POST",
                status |-> 302]
    /\ reqs' = [reqs EXCEPT ![r] = Idle]
    /\ UNCHANGED <<nextId, now, data, form>>

\* The response is delivered.
Deliver ==
    /\ resp # NoResponse
    /\ resp' = NoResponse
    /\ UNCHANGED <<store, nextId, now, reqs, deleted, data, form>>

Next ==
    \/ Tick
    \/ Deliver
    \/ \E r \in Slots : NoteListCount(r)
    \/ \E r \in Slots : NoteListRender(r)
    \/ \E pk \in Pks : NoteDetail(pk)
    \/ NoteCreateGet
    \/ \E post \in Posts : NoteCreatePost(post)
    \/ \E pk \in Pks : NoteUpdateGet(pk)
    \/ \E r \in Slots, pk \in Pks : NoteUpdateFetch(r, pk)
    \/ \E r \in Slots, post \in Posts : NoteUpdatePost(r, post)
    \/ \E pk \in Pks : NoteDeleteGet(pk)
    \/ \E r \in Slots, pk \in Pks : NoteDeleteFetch(r, pk)
    \/ \E r \in Slots : NoteDeletePost(r)

Spec == Init /\ [][Next]_vars

\* ------------------------------------------------------------------ validation alone
\* The values a field of a form is given when validation is checked by itself:
\* empty, blank, padded, with whitespace inside, at and over the length limit
\* raw and stripped, and holding a null character.
TitleValues ==
    { <<>>, <<" ">>, <<"\t", " ", "\n">>, <<"a">>, <<" ", "a", " ">>, <<"a", " ", "b">>,
      <<"\n", "a", " ", "b", "\t">>,
      Rep("x", MaxTitleLength), Rep("x", MaxTitleLength + 1),
      <<" ">> \o Rep("x", MaxTitleLength) \o <<"\n">>,
      <<" ">> \o Rep("x", MaxTitleLength + 1),
      Rep("x", MaxTitleLength - 1) \o <<" ", "y">>,
      <<"a", NUL>>, Rep("x", MaxTitleLength) \o <<NUL>> }

ContentValues ==
    { <<>>, <<" ", "\n">>, <<"c">>, <<" ", "c", "\n">>, <<"c", " ", "d">>,
      Rep("y", MaxTitleLength + 1), <<NUL, "c">> }

FormData ==
    {[title |-> t, content |-> c] : t \in TitleValues, c \in ContentValues}
    \cup {[name \in {"title"} |-> t] : t \in TitleValues}
    \cup {[name \in {"content"} |-> c] : c \in ContentValues}
    \cup {EmptyPost}

InitValidation ==
    /\ store = NoRows
    /\ nextId = 1
    /\ now = 0
    /\ reqs = [r \in Slots |-> Idle]
    /\ resp = NoResponse
    /\ deleted = {}
    /\ data \in FormData
    /\ form = Unbound

\* form = NoteForm(data); form.is_valid()
Validate ==
    /\ form = Unbound
    /\ form' = NoteForm(data)
    /\ UNCHANGED <<store, nextId, now, reqs, resp, deleted, data>>

NextValidation == Validate

SpecValidation == InitValidation /\ [][NextValidation]_vars

\* ------------------------------------------------------------------ the claims
\* The trimmed form of a string, stated apart from Strip: what lies between
\* its first and its last character that is not whitespace.
NonWs(s) == {i \in 1..Len(s) : s[i] \notin Whitespace}
RefTrim(s) ==
    IF NonWs(s) = {} THEN <<>>
    ELSE SubSeq(s, CHOOSE i \in NonWs(s) : \A j \in NonWs(s) : i <= j,
                   CHOOSE i \in NonWs(s) : \A j \in NonWs(s) : i >= j)

HasErrors(r) == \E name \in Fields : r.errors[name] # {}
FormResponse(r) == r.view \in {"create", "update"} /\ r.method = "POST" /\ r.status # 404

\* C1: a create or update POST whose form fails validation leaves the table
\* exactly as it was and is answered 200 with the field errors, not with the
\* redirect; a step of such a request that changes the table answers the
\* redirect and has no field error.
C1_FailedValidationLeavesStore ==
    [][ /\ (FormResponse(resp') /\ HasErrors(resp'))
            => (store' = store /\ nextId' = nextId /\ resp'.status = 200)
        /\ (FormResponse(resp') /\ store' # store)
            => (resp'.status = 302 /\ ~HasErrors(resp')) ]_vars

\* C1 happens: an update POST on an existing note was answered 200 with a
\* title error.
C1_Witness ==
    /\ resp.view = "update" /\ resp.method = "POST" /\ resp.status = 200
    /\ resp.errors["title"] # {}
    /\ store # NoRows

\* C2: every stored note has a title equal to its trimmed form, not empty and
\* of at most 200 characters, and a content equal to its trimmed form and not
\* empty.
C2_StoredFieldsTrimmed ==
    \A i \in DOMAIN store :
        /\ store[i].title = RefTrim(store[i].title)
        /\ store[i].title # <<>>
        /\ Len(store[i].title) <= MaxTitleLength
        /\ store[i].content = RefTrim(store[i].content)
        /\ store[i].content # <<>>

\* C2 happens: the form submitted as " a " / " c " was saved, as "a" / "c".
C2_Witness ==
    \E i \in DOMAIN store : store[i].title = <<"a">> /\ store[i].content = <<"c">>

\* C3: once a delete POST for an id was answered with the redirect, no note
\* with that id is in the table.
C3_DeletedStaysDeleted == \A pk \in deleted : pk \notin DOMAIN store

\* A step that ends the update POST of slot r with the redirect.
UpdateSaved(r) ==
    /\ reqs[r].pc = "fetched" /\ reqs[r].view = "update"
    /\ reqs'[r].pc = "idle"
    /\ resp'.status = 302

\* C4: a successful update changes only title, content and updated_at of the
\* note it targets: no note is added or removed, the note's created_at is what
\* it was, every other note is unchanged; and no step changes the created_at
\* of a note that is in the table before and after it.
C4_UpdateFrame ==
    [][ /\ \A r \in Slots : UpdateSaved(r) =>
              /\ DOMAIN store' = DOMAIN store
              /\ store'[reqs[r].pk].created_at = store[reqs[r].pk].created_at
              /\ \A j \in DOMAIN store \ {reqs[r].pk} : store'[j] = store[j]
        /\ \A i \in DOMAIN store \cap DOMAIN store' :
              store'[i].created_at = store[i].created_at ]_vars

\* C5: for an id that is not in the table, the view, update and delete
\* endpoints, GET and POST alike, answer 404, change nothing in the table and
\* go no further.
C5_MissingIdIs404 ==
    [][ \A pk \in Pks :
          ( /\ pk \notin DOMAIN store
            /\ \/ NoteDetail(pk) \/ NoteUpdateGet(pk) \/ NoteDeleteGet(pk)
               \/ \E r \in Slots : NoteUpdateFetch(r, pk)
               \/ \E r \in Slots : NoteDeleteFetch(r, pk) )
          => (resp'.status = 404 /\ store' = store /\ reqs' = reqs) ]_vars

\* C5 happens: an update POST for an id that is not in the table was answered
\* 404 while another note was in the table.
C5_Witness ==
    /\ resp.view = "update" /\ resp.method = "POST" /\ resp.status = 404
    /\ store # NoRows

\* The ids of st, created_at descending and, among equal created_at, the note
\* inserted last (the greater id) first.
NewestFirst(st) ==
    CHOOSE s \in Orderings(st) :
        \A i, j \in 1..Len(s) :
            (i < j /\ st[s[i]].created_at = st[s[j]].created_at) => s[i] > s[j]

\* C6: the list holds all notes, created_at descending and, among equal
\* created_at, the one inserted last first (while nothing was deleted the
\* order of insertion is the order of the ids).
C6_ListNewestFirst ==
    (resp.view = "list" /\ deleted = {}) => resp.notes = NewestFirst(store)

\* C7, as claimed: a title error iff the title is absent, blank or longer than
\* 200 once trimmed, the length reported being the trimmed one; a content
\* error iff the content is absent or blank; otherwise both values trimmed.
RefTitle(d)   == IF "title" \in DOMAIN d THEN RefTrim(d.title) ELSE <<>>
RefContent(d) == IF "content" \in DOMAIN d THEN RefTrim(d.content) ELSE <<>>
HasNul(s)     == \E i \in 1..Len(s) : s[i] = NUL

ReportedLength(d) ==
    \A e \in form.errors["title"] :
        e.code = "max_length" => e.show_value = Len(RefTitle(d))

CleanedAsTrimmed(d) ==
    is_valid(form) => /\ form.cleaned_data["title"] = RefTitle(d)
                      /\ form.cleaned_data["content"] = RefContent(d)

C7_ReferenceRules ==
    form # Unbound =>
        /\ form.errors["title"] # {}
              <=> (RefTitle(data) = <<>> \/ Len(RefTitle(data)) > MaxTitleLength)
        /\ form.errors["content"] # {} <=> RefContent(data) = <<>>
        /\ ReportedLength(data)
        /\ CleanedAsTrimmed(data)

\* C7, amended: a field that holds a null character is in error too.
C7_ReferenceRulesWithNul ==
    form # Unbound =>
        /\ form.errors["title"] # {}
              <=> (\/ RefTitle(data) = <<>>
                   \/ Len(RefTitle(data)) > MaxTitleLength
                   \/ HasNul(RefTitle(data)))
        /\ form.errors["content"] # {}
              <=> (RefContent(data) = <<>> \/ HasNul(RefContent(data)))
        /\ ReportedLength(data)
        /\ CleanedAsTrimmed(data)

\* C7 happens: a title of more than 200 characters raw and 200 trimmed was
\* accepted and cleaned to its trimmed form.
C7_Witness ==
    /\ form # Unbound
    /\ "title" \in DOMAIN data
    /\ Len(data.title) > MaxTitleLength
    /\ is_valid(form)
    /\ Len(form.cleaned_data["title"]) = MaxTitleLength

\* C8: every stored note has created_at <= updated_at.
C8_CreatedBeforeUpdated ==
    \A i \in DOMAIN store : store[i].created_at <= store[i].updated_at

\* C8 happens: an update was saved, on a note created earlier.
C8_Witness ==
    /\ resp.view = "update" /\ resp.status = 302
    /\ \E i \in DOMAIN store : store[i].created_at < store[i].updated_at

\* What the table can be after the whole request of a slot, run with nothing
\* in between from the state st at time t: an update of a missing id is a 404,
\* of a present id it fails validation or rewrites title, content and
\* updated_at; a delete of a missing id is a 404, of a present id removes it.
SerialResults(st, view, pk, t) ==
    IF pk \notin DOMAIN st THEN {st}
    ELSE IF view = "delete" THEN {ModelDelete(st, pk)}
    ELSE {st} \cup
         { PutRow(st, pk, Row(Forms[p].cleaned_data["title"],
                              Forms[p].cleaned_data["content"],
                              st[pk].created_at, t)) :
             p \in {q \in Posts : is_valid(Forms[q])} }

\* C9: the write of a request leaves the table as the whole request would,
\* run at that moment with no other request between its fetch and its write.
C9_WritesAreSerial ==
    [][ \A r \in Slots :
          (reqs[r].pc = "fetched" /\ reqs'[r].pc = "idle")
          => store' \in SerialResults(store, reqs[r].view, reqs[r].pk, now) ]_vars

\* C10: in a list response the total count is the number of notes listed.
C10_CountMatchesList ==
    resp.view = "list" => resp.total_notes = Len(resp.notes)

====
